---- MODULE Spec2Model ----
(***************************************************************************)
(* Model of the WebSocket hub (internal/websocket/hub.go) and of the       *)
(* per-connection ReadPump / WritePump of the same package.                *)
(*                                                                         *)
(* Granularity: one action per handler.  A handler that holds h.mutex for  *)
(* its whole body (registerClient, unregisterClient, JoinRoom, LeaveRoom,  *)
(* the broadcast passes) is one step; the order in which a pass ranges     *)
(* over a Go map is a nondeterministic choice.  A panic of the Go runtime  *)
(* (send on a closed channel, close of a closed channel) aborts the        *)
(* handler at that statement: in the hub goroutine it ends the process.    *)
(***************************************************************************)
EXTENDS Integers, Sequences, FiniteSets, TLC

\* ---- the finite universe of the model
Client == {"c1", "c2", "c3"}
Room == {"g1", "g2"}
User == {"u1", "u2"}
NoUser == ""
Payload == {"M1"}
PingMsg == "ping"
PongMsg == "pong"
ErrorMsg == "error"
TypingMsg == "user_typing"
\* the user_typing envelope of handleStopTyping: "is_typing": false
StopTypingMsg == "user_typing/is_typing=false"

NoClient == "none"

\* ---- bounds
QueueCap == 2
MaxFrames == 3
MaxBroadcasts == 2
MaxFaults == 1

\* what the accept layer may set as each connection's user id: NoUser when the
\* request is not authenticated
Logins ==
    [c \in Client |-> IF c = "c1" THEN {"u1", NoUser}
                      ELSE IF c = "c2" THEN {"u1"}
                      ELSE {"u1", "u2", NoUser}]

VARIABLES
    clients,          \* h.clients: the global set of registered connections
    rooms,            \* h.rooms: room id -> member set, keys exist only while present in the map
    userConnections,  \* h.userConnections: user id -> slice of connections
    clientRooms,      \* client.rooms
    userID,           \* client.UserID
    send,             \* the buffered contents of client.send
    closed,           \* whether client.send has been closed
    rp,               \* position of the client's ReadPump ("unwinding": its deferred
                      \* function runs because the pump panicked)
    wp,               \* position of the client's WritePump
    connOpen,         \* whether the client's socket is still open
    hub,              \* position of Hub.Run
    crashed,          \* the process died of an unrecovered panic
    closeCalls,       \* number of close(client.send) executed per client
    sendOnClosed,     \* clients on whose closed queue a send was executed
    last,             \* the last operation recorded, the connections it removed (a pass:
                      \* those it found full; leave_room: the leaver if a member) and, for
                      \* the WritePump, the frame it wrote
    n,                \* inputs taken so far: n.f inbound frames, n.b broadcast passes,
                      \* n.x injected faults; n.u unregister events the hub loop received
    mu,               \* h.mutex: per goroutine, the locked function it is inside of
    held,             \* what the caller of the last query holds: the query, its argument,
                      \* the value returned, and whether the slice returned shares its
                      \* backing array with h.userConnections
    wire              \* per client, the numbered broadcasts (Ordered) its WritePump has
                      \* written to the socket, in the order written

vars == <<clients, rooms, userConnections, clientRooms, userID, send, closed, rp, wp,
          connOpen, hub, crashed, closeCalls, sendOnClosed, last, n, mu, held, wire>>

NoOp == [op |-> "none", full |-> {}, panicAt |-> NoClient, frame |-> <<>>]

\* the goroutines that take h.mutex: the one running Hub.Run, a request handler, and
\* the ReadPump of each connection
Task == {"hub", "api"} \cup Client

\* the goroutine is inside no function that locks h.mutex
NoCall == [op |-> "none", a |-> "", b |-> ""]

\* defer h.mutex.Unlock() / defer h.mutex.RUnlock(): goroutine t leaves the locked
\* function, by return or by panic
Unlocks(t) == mu' = [mu EXCEPT ![t] = NoCall]

\* no query was called yet
NoHeld == [q |-> "none", arg |-> "", ok |-> FALSE, val |-> <<>>, alias |-> FALSE]

\* what a slice header of length Len(h.val) shows of the backing array of
\* h.userConnections[h.arg] once the index is uc: removeUserConnection's
\* append(connections[:i], connections[i+1:]...) moves the elements in place, and the
\* slots past the new length keep what they held
View(h, uc) ==
    LET s == IF h.arg \in DOMAIN uc THEN uc[h.arg] ELSE <<>> IN
    [j \in 1..Len(h.val) |-> IF j <= Len(s) THEN s[j] ELSE h.val[j]]

\* a value a caller holds changes only through memory it shares with the hub
HeldKept ==
    held' = IF held.alias THEN [held EXCEPT !.val = View(held, userConnections')] ELSE held

\* ---- helpers over the Go data structures

\* faulty variant: the emptied room is left in h.rooms
DeleteMemberKeepsKey(rs, r, c) ==
    IF r \in DOMAIN rs THEN [rs EXCEPT ![r] = @ \ {c}] ELSE rs

\* delete(room, client); if len(room) == 0 { delete(h.rooms, roomID) }, under "if room exists"
DeleteMember(rs, r, c) ==
    IF r \in DOMAIN rs
    THEN LET S == rs[r] \ {c} IN
         IF S = {} THEN [x \in DOMAIN rs \ {r} |-> rs[x]]
         ELSE [rs EXCEPT ![r] = S]
    ELSE rs

\* faulty variant: the room's map is made anew on every join
AddMemberFreshRoom(rs, r, c) ==
    [x \in DOMAIN rs \cup {r} |-> IF x = r THEN {c} ELSE rs[x]]

\* h.rooms[roomID][client] = true, creating the room on first use
AddMember(rs, r, c) ==
    [x \in DOMAIN rs \cup {r} |-> IF x = r
                                  THEN (IF r \in DOMAIN rs THEN rs[r] ELSE {}) \cup {c}
                                  ELSE rs[x]]

RECURSIVE DeleteFromRooms(_, _, _)
DeleteFromRooms(rs, todo, c) ==
    IF todo = {} THEN rs
    ELSE LET r == CHOOSE x \in todo : TRUE IN
         DeleteFromRooms(DeleteMember(rs, r, c), todo \ {r}, c)

\* sequence a is an initial part of sequence b
IsPrefix(a, b) == Len(a) <= Len(b) /\ SubSeq(b, 1, Len(a)) = a

\* index of the first occurrence of c in slice s, 0 when absent
RECURSIVE IndexFrom(_, _, _)
IndexFrom(s, c, i) ==
    IF i > Len(s) THEN 0
    ELSE IF s[i] = c THEN i
    ELSE IndexFrom(s, c, i + 1)

IndexOf(s, c) == IndexFrom(s, c, 1)

RemoveAt(s, i) == SubSeq(s, 1, i - 1) \o SubSeq(s, i + 1, Len(s))

\* a removal that leaves the emptied entry in the map
RemoveUserConnectionKeepsKey(uc, u, c) ==
    IF u \in DOMAIN uc
    THEN LET i == IndexOf(uc[u], c)
         IN [uc EXCEPT ![u] = IF i = 0 THEN uc[u] ELSE RemoveAt(uc[u], i)]
    ELSE uc

\* Hub.removeUserConnection on the map value
RemoveUserConnection(uc, u, c) ==
    IF u \in DOMAIN uc
    THEN LET i == IndexOf(uc[u], c)
             s == IF i = 0 THEN uc[u] ELSE RemoveAt(uc[u], i)
         IN IF Len(s) = 0 THEN [x \in DOMAIN uc \ {u} |-> uc[x]]
            ELSE [uc EXCEPT ![u] = s]
    ELSE uc

AppendUserConnection(uc, u, c) ==
    [x \in DOMAIN uc \cup {u} |-> IF x = u
                                  THEN Append(IF u \in DOMAIN uc THEN uc[u] ELSE <<>>, c)
                                  ELSE uc[x]]

Range(s) == {s[i] : i \in 1..Len(s)}

\* two broadcasts a caller issues one after the other
Ordered == <<"N1", "N2">>

IsOrdered(x) == x \in Range(Ordered)

\* all orders in which a range over a Go map may visit the set S
Orders(S) == {f \in [1..Cardinality(S) -> S] : \A i, j \in 1..Cardinality(S) : f[i] = f[j] => i = j}

Alive == ~crashed

\* connections are accepted in the order of their names
Before(d, c) == <<d, c>> \in {<<"c1", "c2">>, <<"c1", "c3">>, <<"c2", "c3">>}

\* the state after NewHub, with the connections of P still to be accepted
InitWith(P) ==
    /\ clients = {}
    /\ rooms = << >>
    /\ userConnections = << >>
    /\ clientRooms = [c \in Client |-> {}]
    /\ userID = [c \in Client |-> NoUser]
    /\ send = [c \in Client |-> <<>>]
    /\ closed = [c \in Client |-> FALSE]
    /\ rp = [c \in Client |-> IF c \in P THEN "new" ELSE "absent"]
    /\ wp = [c \in Client |-> "new"]
    /\ connOpen = [c \in Client |-> TRUE]
    /\ hub = "running"
    /\ crashed = FALSE
    /\ closeCalls = [c \in Client |-> 0]
    /\ sendOnClosed = {}
    /\ last = NoOp
    /\ n = [f |-> 0, b |-> 0, x |-> 0, u |-> 0]
    /\ mu = [t \in Task |-> NoCall]
    /\ held = NoHeld
    /\ wire = [c \in Client |-> <<>>]

Init == InitWith({"c1", "c2"})

InitOne == InitWith({"c1"})

\* ---- the read-only queries

\* Hub.GetRoomClients
RoomMembers(r) == IF r \in DOMAIN rooms THEN rooms[r] ELSE {}

\* Hub.GetUserConnections
UserConnections(u) == IF u \in DOMAIN userConnections THEN userConnections[u] ELSE <<>>

\* the connection is listed in the user index under its own user id
InUserIndex(c) == c \in Range(UserConnections(userID[c]))

\* the connection is a member of some room
InSomeRoom(c) == \E r \in Room : c \in RoomMembers(r)

\* what Hub.IsUserOnline(u) answers: exists && len(connections) > 0
IsOnline(u) == u \in DOMAIN userConnections /\ Len(userConnections[u]) > 0

\* the user ids Hub.GetOnlineUsers collects: the entries with len(connections) > 0
ListOnline == {u \in DOMAIN userConnections : Len(userConnections[u]) > 0}

\* the connections registered under user id u
RegisteredAs(u) == {c \in clients : userID[c] = u}

\* ---- the broadcast passes

PassState ==
    [send |-> send, closed |-> closed, closeCalls |-> closeCalls, rooms |-> rooms,
     clients |-> clients, full |-> {}, panicAt |-> NoClient]

\* faulty variant: the message is put at the head of the queue
RECURSIVE RoomLoopPrepends(_, _, _, _, _)
RoomLoopPrepends(r, order, i, m, st) ==
    IF i > Len(order) THEN st
    ELSE LET c == order[i] IN
         IF st.closed[c]
         THEN [st EXCEPT !.panicAt = c]
         ELSE IF Len(st.send[c]) < QueueCap
         THEN RoomLoopPrepends(r, order, i + 1, m, [st EXCEPT !.send[c] = <<m>> \o @])
         ELSE RoomLoopPrepends(r, order, i + 1, m,
                               [st EXCEPT !.closed[c] = TRUE,
                                          !.closeCalls[c] = @ + 1,
                                          !.rooms = DeleteMember(@, r, c),
                                          !.full = @ \cup {c}])

\* Hub.BroadcastToRoom, the loop over the room's members in the order given
RECURSIVE RoomLoop(_, _, _, _, _)
RoomLoop(r, order, i, m, st) ==
    IF i > Len(order) THEN st
    ELSE LET c == order[i] IN
         IF st.closed[c]
         THEN [st EXCEPT !.panicAt = c]
         ELSE IF Len(st.send[c]) < QueueCap
         THEN RoomLoop(r, order, i + 1, m, [st EXCEPT !.send[c] = Append(@, m)])
         ELSE RoomLoop(r, order, i + 1, m,
                       [st EXCEPT !.closed[c] = TRUE,
                                  !.closeCalls[c] = @ + 1,
                                  !.rooms = DeleteMember(@, r, c),
                                  !.full = @ \cup {c}])

\* faulty variant: the connection is evicted when one slot is still free
RECURSIVE AllLoopEvictsEarly(_, _, _, _)
AllLoopEvictsEarly(order, i, m, st) ==
    IF i > Len(order) THEN st
    ELSE LET c == order[i] IN
         IF st.closed[c]
         THEN [st EXCEPT !.panicAt = c]
         ELSE IF Len(st.send[c]) < QueueCap - 1
         THEN AllLoopEvictsEarly(order, i + 1, m, [st EXCEPT !.send[c] = Append(@, m)])
         ELSE AllLoopEvictsEarly(order, i + 1, m,
                      [st EXCEPT !.closed[c] = TRUE,
                                 !.closeCalls[c] = @ + 1,
                                 !.clients = @ \ {c},
                                 !.full = @ \cup {c}])

\* Hub.broadcastToAll, the loop over h.clients in the order given
RECURSIVE AllLoop(_, _, _, _)
AllLoop(order, i, m, st) ==
    IF i > Len(order) THEN st
    ELSE LET c == order[i] IN
         IF st.closed[c]
         THEN [st EXCEPT !.panicAt = c]
         ELSE IF Len(st.send[c]) < QueueCap
         THEN AllLoop(order, i + 1, m, [st EXCEPT !.send[c] = Append(@, m)])
         ELSE AllLoop(order, i + 1, m,
                      [st EXCEPT !.closed[c] = TRUE,
                                 !.closeCalls[c] = @ + 1,
                                 !.clients = @ \ {c},
                                 !.full = @ \cup {c}])

\* Hub.pingClients, the loop over h.clients in the order given
RECURSIVE PingLoop(_, _, _)
PingLoop(order, i, st) ==
    IF i > Len(order) THEN st
    ELSE LET c == order[i] IN
         IF st.closed[c]
         THEN [st EXCEPT !.panicAt = c]
         ELSE IF Len(st.send[c]) < QueueCap
         THEN PingLoop(order, i + 1, [st EXCEPT !.send[c] = Append(@, PingMsg)])
         ELSE PingLoop(order, i + 1,
                       [st EXCEPT !.closed[c] = TRUE,
                                  !.closeCalls[c] = @ + 1,
                                  !.clients = @ \ {c},
                                  !.full = @ \cup {c}])

\* faulty variant: the connection found full is left in the slice
RemoveNothing(st, c) == st

\* Hub.removeUserConnection while BroadcastToUser ranges over the slice: the
\* append(connections[:k], connections[k+1:]...) shifts the backing array in place,
\* so the slot at the old length keeps its stale value.
RemoveInPlace(st, c) ==
    IF ~st.exists THEN st
    ELSE LET k == IndexOf(SubSeq(st.arr, 1, st.len), c) IN
         IF k = 0 THEN st
         ELSE [st EXCEPT !.arr = SubSeq(st.arr, 1, k - 1) \o SubSeq(st.arr, k + 1, st.len)
                                   \o SubSeq(st.arr, st.len, Len(st.arr)),
                         !.len = st.len - 1,
                         !.exists = st.len - 1 > 0]

\* Hub.BroadcastToUser, the loop over the slice header taken at the start
RECURSIVE UserLoop(_, _, _)
UserLoop(i, m, st) ==
    IF i > Len(st.arr) THEN st
    ELSE LET c == st.arr[i] IN
         IF st.closed[c]
         THEN [st EXCEPT !.panicAt = c]
         ELSE IF Len(st.send[c]) < QueueCap
         THEN UserLoop(i + 1, m, [st EXCEPT !.send[c] = Append(@, m)])
         ELSE UserLoop(i + 1, m, [RemoveInPlace(st, c) EXCEPT !.full = @ \cup {c}])

\* the effect of Hub.BroadcastToRoom(r, m) on the hub and on the queues
BroadcastToRoom(r, m) ==
    /\ IF r \in DOMAIN rooms
       THEN \E order \in Orders(rooms[r]) :
              LET st == RoomLoop(r, order, 1, m, PassState) IN
              /\ send' = st.send
              /\ closed' = st.closed
              /\ closeCalls' = st.closeCalls
              /\ rooms' = st.rooms
              /\ sendOnClosed' = IF st.panicAt = NoClient THEN sendOnClosed
                                 ELSE sendOnClosed \cup {st.panicAt}
              /\ last' = [op |-> "BroadcastToRoom", full |-> st.full, panicAt |-> st.panicAt, frame |-> <<>>]
       ELSE /\ UNCHANGED <<send, closed, closeCalls, rooms, sendOnClosed>>
            /\ last' = [op |-> "BroadcastToRoom", full |-> {}, panicAt |-> NoClient, frame |-> <<>>]
    /\ UNCHANGED <<clients, userConnections, clientRooms, userID>>

\* the effect of Hub.BroadcastToUser(u, m)
BroadcastToUser(u, m) ==
    /\ IF u \in DOMAIN userConnections
       THEN LET st == UserLoop(1, m, [send |-> send, closed |-> closed,
                                      arr |-> userConnections[u],
                                      len |-> Len(userConnections[u]),
                                      exists |-> TRUE, full |-> {},
                                      panicAt |-> NoClient]) IN
            /\ send' = st.send
            /\ userConnections' =
                 IF st.exists
                 THEN [userConnections EXCEPT ![u] = SubSeq(st.arr, 1, st.len)]
                 ELSE [x \in DOMAIN userConnections \ {u} |-> userConnections[x]]
            /\ sendOnClosed' = IF st.panicAt = NoClient THEN sendOnClosed
                               ELSE sendOnClosed \cup {st.panicAt}
            /\ last' = [op |-> "BroadcastToUser", full |-> st.full, panicAt |-> st.panicAt, frame |-> <<>>]
       ELSE /\ UNCHANGED <<send, userConnections, sendOnClosed>>
            /\ last' = [op |-> "BroadcastToUser", full |-> {}, panicAt |-> NoClient, frame |-> <<>>]
    /\ UNCHANGED <<clients, rooms, clientRooms, userID, closed, closeCalls>>

\* ---- the accept layer and the hub control loop (Hub.Run)

HubReceives == Alive /\ hub \in {"running", "cancelled"}

\* the accept layer: NewClient, SetUser when the request is authenticated (u # NoUser),
\* Hub.RegisterClient, and case client := <-h.register: h.registerClient(client);
\* the two pumps start afterwards
HubRegister(c, u) ==
    /\ HubReceives
    /\ rp[c] = "new"
    /\ \A d \in Client : Before(d, c) => rp[d] # "new"
    /\ userID' = [userID EXCEPT ![c] = u]
    /\ clients' = clients \cup {c}
    /\ userConnections' = IF u # NoUser
                          THEN AppendUserConnection(userConnections, u, c)
                          ELSE userConnections
    /\ rp' = [rp EXCEPT ![c] = "reading"]
    /\ wp' = [wp EXCEPT ![c] = "writing"]
    /\ last' = NoOp
    /\ UNCHANGED <<rooms, clientRooms, send, closed, connOpen, hub, crashed, closeCalls,
                   sendOnClosed, n>>
    /\ Unlocks("hub")
    /\ HeldKept
    /\ UNCHANGED wire

\* Hub.RegisterClient called once more for a connection that was registered before:
\* case client := <-h.register: h.registerClient(client), which looks nothing up
HubRegisterAgain(c) ==
    /\ HubReceives
    /\ rp[c] = "reading"
    /\ n.x < MaxFaults
    /\ n' = [n EXCEPT !.x = @ + 1]
    /\ clients' = clients \cup {c}
    /\ userConnections' = IF userID[c] # NoUser
                          THEN AppendUserConnection(userConnections, userID[c], c)
                          ELSE userConnections
    /\ last' = NoOp
    /\ UNCHANGED <<rooms, clientRooms, userID, send, closed, rp, wp, connOpen, hub, crashed,
                   closeCalls, sendOnClosed>>
    /\ Unlocks("hub")
    /\ HeldKept
    /\ UNCHANGED wire

\* Hub.unregisterClient panics at close(client.send) when the queue is already closed
UnregisterPanics(c) == c \in clients /\ closed[c]

\* the part of the state Hub.unregisterClient works on
HubState ==
    [clients |-> clients, rooms |-> rooms, userConnections |-> userConnections,
     closed |-> closed, closeCalls |-> closeCalls, panics |-> FALSE]

\* faulty variant: close(client.send) is not guarded by the lookup in h.clients
UnregisterAlwaysCloses(s, c) ==
    IF s.closed[c]
    THEN [s EXCEPT !.clients = @ \ {c}, !.closeCalls[c] = @ + 1, !.panics = TRUE]
    ELSE [s EXCEPT !.clients = @ \ {c},
                   !.closed[c] = TRUE,
                   !.closeCalls[c] = @ + 1,
                   !.rooms = DeleteFromRooms(@, clientRooms[c], c),
                   !.userConnections = IF userID[c] # NoUser
                                       THEN RemoveUserConnection(@, userID[c], c)
                                       ELSE @]

\* Hub.unregisterClient as a function of the hub state: the panic of a second
\* close(client.send) comes after the delete from h.clients and before the rooms and
\* the user index are cleaned
UnregisterState(s, c) ==
    IF c \in s.clients /\ s.closed[c]
    THEN [s EXCEPT !.clients = @ \ {c}, !.closeCalls[c] = @ + 1, !.panics = TRUE]
    ELSE [s EXCEPT !.clients = @ \ {c},
                   !.closed[c] = @ \/ c \in s.clients,
                   !.closeCalls[c] = IF c \in s.clients THEN @ + 1 ELSE @,
                   !.rooms = DeleteFromRooms(@, clientRooms[c], c),
                   !.userConnections = IF userID[c] # NoUser
                                       THEN RemoveUserConnection(@, userID[c], c)
                                       ELSE @]

\* Hub.unregisterClient
UnregisterClient(c) ==
    LET s == UnregisterState(HubState, c) IN
    /\ clients' = s.clients
    /\ closed' = s.closed
    /\ closeCalls' = s.closeCalls
    /\ rooms' = s.rooms
    /\ userConnections' = s.userConnections

\* the deferred function of ReadPump: h.unregister <- c is received by the hub loop
\* (case client := <-h.unregister), then c.conn.Close(); a panic that was unwinding the
\* pump then reaches the top of its goroutine, where it is recovered or ends the process
HubUnregister(c) ==
    /\ HubReceives
    /\ rp[c] \in {"unregistering", "unwinding"}
    /\ UnregisterClient(c)
    /\ IF UnregisterPanics(c)
       THEN crashed' = TRUE /\ UNCHANGED <<rp, connOpen>>
       ELSE /\ connOpen' = [connOpen EXCEPT ![c] = FALSE]
            /\ \E recovered \in BOOLEAN :
                 IF rp[c] = "unwinding" /\ ~recovered
                 THEN crashed' = TRUE /\ rp' = rp
                 ELSE crashed' = crashed /\ rp' = [rp EXCEPT ![c] = "done"]
    /\ n' = [n EXCEPT !.u = @ + 1]
    /\ last' = NoOp
    /\ UNCHANGED <<clientRooms, userID, send, wp, hub, sendOnClosed>>
    /\ Unlocks("hub")
    /\ HeldKept
    /\ UNCHANGED wire

\* case client := <-h.unregister, sent by another caller of Hub.UnregisterClient
HubUnregisterForced(c) ==
    /\ HubReceives
    /\ rp[c] = "reading"
    /\ n.x < MaxFaults
    /\ n' = [n EXCEPT !.x = @ + 1, !.u = @ + 1]
    /\ UnregisterClient(c)
    /\ crashed' = UnregisterPanics(c)
    /\ last' = NoOp
    /\ UNCHANGED <<clientRooms, userID, send, rp, wp, connOpen, hub, sendOnClosed>>
    /\ Unlocks("hub")
    /\ HeldKept
    /\ UNCHANGED wire

\* case message := <-h.broadcast: h.broadcastToAll(message)
HubBroadcastAll(m) ==
    /\ HubReceives
    /\ n.b < MaxBroadcasts
    /\ n' = [n EXCEPT !.b = @ + 1]
    /\ \E order \in Orders(clients) :
         LET st == AllLoop(order, 1, m, PassState) IN
         /\ send' = st.send
         /\ closed' = st.closed
         /\ closeCalls' = st.closeCalls
         /\ clients' = st.clients
         /\ sendOnClosed' = IF st.panicAt = NoClient THEN sendOnClosed
                            ELSE sendOnClosed \cup {st.panicAt}
         /\ crashed' = (st.panicAt # NoClient)
         /\ last' = [op |-> "broadcastToAll", full |-> st.full, panicAt |-> st.panicAt, frame |-> <<>>]
    /\ UNCHANGED <<rooms, userConnections, clientRooms, userID, rp, wp, connOpen, hub>>
    /\ Unlocks("hub")
    /\ HeldKept
    /\ UNCHANGED wire

\* case <-ticker.C: h.pingClients()
HubPing ==
    /\ HubReceives
    /\ n.b < MaxBroadcasts
    /\ n' = [n EXCEPT !.b = @ + 1]
    /\ \E order \in Orders(clients) :
         LET st == PingLoop(order, 1, PassState) IN
         /\ send' = st.send
         /\ closed' = st.closed
         /\ closeCalls' = st.closeCalls
         /\ clients' = st.clients
         /\ sendOnClosed' = IF st.panicAt = NoClient THEN sendOnClosed
                            ELSE sendOnClosed \cup {st.panicAt}
         /\ crashed' = (st.panicAt # NoClient)
         /\ last' = [op |-> "pingClients", full |-> st.full, panicAt |-> st.panicAt, frame |-> <<>>]
    /\ UNCHANGED <<rooms, userConnections, clientRooms, userID, rp, wp, connOpen, hub>>
    /\ Unlocks("hub")
    /\ HeldKept
    /\ UNCHANGED wire

\* the context of Hub.Run is cancelled
Cancel ==
    /\ Alive
    /\ hub = "running"
    /\ hub' = "cancelled"
    /\ last' = NoOp
    /\ UNCHANGED <<clients, rooms, userConnections, clientRooms, userID, send, closed, rp,
                   wp, connOpen, crashed, closeCalls, sendOnClosed, n>>
    /\ UNCHANGED mu
    /\ HeldKept
    /\ UNCHANGED wire

\* faulty variant: the loop notices the cancellation and keeps running
HubExitIgnored ==
    /\ Alive
    /\ hub = "cancelled"
    /\ UNCHANGED vars
    /\ UNCHANGED mu
    /\ HeldKept
    /\ UNCHANGED wire

\* faulty variant: the loop releases every registered connection before it returns
HubExitReleasesAll ==
    /\ Alive
    /\ hub = "cancelled"
    /\ hub' = "exited"
    /\ clients' = {}
    /\ closed' = [c \in Client |-> closed[c] \/ c \in clients]
    /\ closeCalls' = [c \in Client |-> IF c \in clients THEN closeCalls[c] + 1
                                       ELSE closeCalls[c]]
    /\ last' = NoOp
    /\ UNCHANGED <<rooms, userConnections, clientRooms, userID, send, rp, wp, connOpen,
                   crashed, sendOnClosed, n>>
    /\ UNCHANGED mu
    /\ HeldKept
    /\ UNCHANGED wire

\* case <-ctx.Done(): return
HubExit ==
    /\ Alive
    /\ hub = "cancelled"
    /\ hub' = "exited"
    /\ last' = NoOp
    /\ UNCHANGED <<clients, rooms, userConnections, clientRooms, userID, send, closed, rp,
                   wp, connOpen, crashed, closeCalls, sendOnClosed, n>>
    /\ UNCHANGED mu
    /\ HeldKept
    /\ UNCHANGED wire

\* ---- callers of the hub's public operations outside the hub goroutine

\* Hub.BroadcastToRoom called by a request handler (handlers.CreateMessage, AddReaction,
\* RemoveReaction); net/http recovers a panic of the handler's goroutine
ApiBroadcastToRoom(r, m) ==
    /\ Alive
    /\ n.b < MaxBroadcasts
    /\ n' = [n EXCEPT !.b = @ + 1]
    /\ BroadcastToRoom(r, m)
    /\ UNCHANGED <<rp, wp, connOpen, hub, crashed>>
    /\ Unlocks("api")
    /\ HeldKept
    /\ UNCHANGED wire

\* Hub.BroadcastToUser called from a goroutine that may or may not recover a panic
ApiBroadcastToUser(u, m) ==
    /\ Alive
    /\ n.b < MaxBroadcasts
    /\ n' = [n EXCEPT !.b = @ + 1]
    /\ BroadcastToUser(u, m)
    /\ \E recovered \in BOOLEAN :
         crashed' = (last'.panicAt # NoClient /\ ~recovered)
    /\ UNCHANGED <<rp, wp, connOpen, hub>>
    /\ Unlocks("api")
    /\ HeldKept
    /\ UNCHANGED wire

\* ---- the connection's ReadPump

\* a socket operation fails: always once the socket was closed locally, otherwise as a
\* failure of the peer or the network, which counts as an input
Fault(c) ==
    IF connOpen[c] THEN n.x < MaxFaults /\ n' = [n EXCEPT !.x = @ + 1] ELSE n' = n

\* ReadMessage returns a frame
ReadsFrame(c) ==
    /\ Alive
    /\ rp[c] = "reading"
    /\ connOpen[c]
    /\ n.f < MaxFrames
    /\ n' = [n EXCEPT !.f = @ + 1]

\* faulty variant: a full queue is made room for by taking its oldest message out
SendMessageDropsOldest(c, m) ==
    IF closed[c]
    THEN /\ sendOnClosed' = sendOnClosed \cup {c}
         /\ rp' = [rp EXCEPT ![c] = "unwinding"]
         /\ UNCHANGED <<send, closed, closeCalls>>
    ELSE /\ send' = [send EXCEPT ![c] = IF Len(@) < QueueCap THEN Append(@, m)
                                       ELSE Append(Tail(@), m)]
         /\ UNCHANGED <<closed, closeCalls, sendOnClosed, rp>>

\* Client.SendMessage: a non-blocking send that closes the queue when it is full,
\* and panics in the ReadPump goroutine when the queue is already closed
SendMessage(c, m) ==
    IF closed[c]
    THEN /\ sendOnClosed' = sendOnClosed \cup {c}
         /\ rp' = [rp EXCEPT ![c] = "unwinding"]
         /\ UNCHANGED <<send, closed, closeCalls>>
    ELSE IF Len(send[c]) < QueueCap
    THEN /\ send' = [send EXCEPT ![c] = Append(@, m)]
         /\ UNCHANGED <<closed, closeCalls, sendOnClosed, rp>>
    ELSE /\ closed' = [closed EXCEPT ![c] = TRUE]
         /\ closeCalls' = [closeCalls EXCEPT ![c] = @ + 1]
         /\ UNCHANGED <<send, sendOnClosed, rp>>

\* the membership state Hub.JoinRoom and Hub.LeaveRoom work on
Membership == [rooms |-> rooms, clientRooms |-> clientRooms]

\* faulty variant: client.rooms[roomID] is flipped instead of set
JoinRoomToggles(s, c, r) ==
    [rooms |-> AddMember(s.rooms, r, c),
     clientRooms |-> [s.clientRooms EXCEPT ![c] = IF r \in @ THEN @ \ {r} ELSE @ \cup {r}]]

\* faulty variant: delete(client.rooms, roomID) is forgotten
LeaveRoomHubOnly(s, c, r) ==
    [rooms |-> DeleteMember(s.rooms, r, c), clientRooms |-> s.clientRooms]

\* faulty variant: delete(room, client) is forgotten
LeaveRoomClientOnly(s, c, r) ==
    [rooms |-> s.rooms, clientRooms |-> [s.clientRooms EXCEPT ![c] = @ \ {r}]]

\* Hub.JoinRoom as a function of the membership state
JoinRoomState(s, c, r) ==
    [rooms |-> AddMember(s.rooms, r, c),
     clientRooms |-> [s.clientRooms EXCEPT ![c] = @ \cup {r}]]

\* Hub.LeaveRoom as a function of the membership state
LeaveRoomState(s, c, r) ==
    [rooms |-> DeleteMember(s.rooms, r, c),
     clientRooms |-> [s.clientRooms EXCEPT ![c] = @ \ {r}]]

\* Hub.JoinRoom
JoinRoom(c, r) ==
    LET s == JoinRoomState(Membership, c, r) IN
    /\ rooms' = s.rooms
    /\ clientRooms' = s.clientRooms

\* Hub.LeaveRoom
LeaveRoom(c, r) ==
    LET s == LeaveRoomState(Membership, c, r) IN
    /\ rooms' = s.rooms
    /\ clientRooms' = s.clientRooms

\* handleMessage, case "join_room"
FrameJoin(c, r) ==
    /\ ReadsFrame(c)
    /\ JoinRoom(c, r)
    /\ last' = [op |-> "join_room", full |-> {}, panicAt |-> NoClient, frame |-> <<>>]
    /\ UNCHANGED <<clients, userConnections, userID, send, closed, rp, wp, connOpen, hub,
                   crashed, closeCalls, sendOnClosed>>
    /\ Unlocks(c)
    /\ HeldKept
    /\ UNCHANGED wire

\* handleMessage, case "leave_room"
FrameLeave(c, r) ==
    /\ ReadsFrame(c)
    /\ LeaveRoom(c, r)
    /\ last' = [op |-> "leave_room",
                full |-> IF c \in RoomMembers(r) THEN {c} ELSE {},
                panicAt |-> NoClient, frame |-> <<>>]
    /\ UNCHANGED <<clients, userConnections, userID, send, closed, rp, wp, connOpen, hub,
                   crashed, closeCalls, sendOnClosed>>
    /\ Unlocks(c)
    /\ HeldKept
    /\ UNCHANGED wire

\* handleMessage, cases "typing" and "stop_typing": a room broadcast in the ReadPump
\* goroutine, whose panic unwinds the pump through its deferred function
FrameTyping(c, r) ==
    /\ ReadsFrame(c)
    /\ BroadcastToRoom(r, TypingMsg)
    /\ rp' = IF last'.panicAt # NoClient THEN [rp EXCEPT ![c] = "unwinding"] ELSE rp
    /\ UNCHANGED <<wp, connOpen, hub, crashed>>
    /\ Unlocks(c)
    /\ HeldKept
    /\ UNCHANGED wire

\* handleMessage, case "stop_typing": handleStopTyping, the same room broadcast with
\* "is_typing": false
FrameStopTyping(c, r) ==
    /\ ReadsFrame(c)
    /\ BroadcastToRoom(r, StopTypingMsg)
    /\ rp' = IF last'.panicAt # NoClient THEN [rp EXCEPT ![c] = "unwinding"] ELSE rp
    /\ UNCHANGED <<wp, connOpen, hub, crashed>>
    /\ Unlocks(c)
    /\ HeldKept
    /\ UNCHANGED wire

\* handleMessage, case "ping": handlePing
FramePing(c) ==
    /\ ReadsFrame(c)
    /\ SendMessage(c, PongMsg)
    /\ last' = NoOp
    /\ UNCHANGED <<clients, rooms, userConnections, clientRooms, userID, wp, connOpen,
                   hub, crashed>>
    /\ UNCHANGED mu
    /\ HeldKept
    /\ UNCHANGED wire

\* handleMessage, a malformed envelope or an unknown type: sendError
FrameBad(c) ==
    /\ ReadsFrame(c)
    /\ SendMessage(c, ErrorMsg)
    /\ last' = NoOp
    /\ UNCHANGED <<clients, rooms, userConnections, clientRooms, userID, wp, connOpen,
                   hub, crashed>>
    /\ UNCHANGED mu
    /\ HeldKept
    /\ UNCHANGED wire

\* ReadMessage fails (peer gone, deadline, or the socket was closed locally): the loop
\* breaks and the deferred function starts, blocked on h.unregister <- c
ReadError(c) ==
    /\ Alive
    /\ rp[c] = "reading"
    /\ Fault(c)
    /\ rp' = [rp EXCEPT ![c] = "unregistering"]
    /\ last' = NoOp
    /\ UNCHANGED <<clients, rooms, userConnections, clientRooms, userID, send, closed, wp,
                   connOpen, hub, crashed, closeCalls, sendOnClosed>>
    /\ UNCHANGED mu
    /\ HeldKept
    /\ UNCHANGED wire

\* ---- the connection's WritePump

\* the byte '\n' the WritePump writes between two coalesced messages
NL == "\n"

\* faulty variant: the coalescing loop receives once more than len(c.send) had and
\* writes the zero value that the closed, empty queue yields, after one more '\n'
RECURSIVE FrameWithNil(_)
FrameWithNil(msgs) ==
    IF Len(msgs) = 0 THEN <<NL>>
    ELSE <<msgs[1]>> \o (IF Len(msgs) = 1 THEN <<>> ELSE <<NL>>) \o FrameWithNil(Tail(msgs))

\* w.Write(message), then for each queued message w.Write('\n'); w.Write(<-c.send):
\* the content of the frame, in the order written
RECURSIVE FrameOf(_)
FrameOf(msgs) ==
    IF Len(msgs) = 0 THEN <<>>
    ELSE IF Len(msgs) = 1 THEN <<msgs[1]>>
    ELSE <<msgs[1], NL>> \o FrameOf(Tail(msgs))

\* what the receiver of a frame decodes: its parts between the newlines
RECURSIVE Units(_)
Units(f) ==
    LET i == IndexOf(f, NL) IN
    IF i = 0 THEN <<f>>
    ELSE <<SubSeq(f, 1, i - 1)>> \o Units(SubSeq(f, i + 1, Len(f)))

\* case message, ok := <-c.send with ok: the message is written, then the
\* n := len(c.send) messages queued behind it at that moment (those enqueued after
\* len was read stay queued), as one frame
WriteMessages(c) ==
    /\ Alive
    /\ wp[c] = "writing"
    /\ connOpen[c]
    /\ send[c] # <<>>
    /\ \E k \in 1..Len(send[c]) :
         /\ send' = [send EXCEPT ![c] = SubSeq(@, k + 1, Len(@))]
         /\ last' = [op |-> "WritePump", full |-> {}, panicAt |-> NoClient,
                     frame |-> FrameOf(SubSeq(send[c], 1, k))]
    /\ UNCHANGED <<clients, rooms, userConnections, clientRooms, userID, closed, rp, wp,
                   connOpen, hub, crashed, closeCalls, sendOnClosed, n>>
    /\ wire' = [wire EXCEPT ![c] = @ \o SelectSeq(last'.frame, IsOrdered)]
    /\ UNCHANGED mu
    /\ HeldKept

\* the same case when NextWriter fails (one message taken) or w.Close fails (all taken)
WriteFails(c) ==
    /\ Alive
    /\ wp[c] = "writing"
    /\ send[c] # <<>>
    /\ Fault(c)
    /\ \E k \in {1, Len(send[c])} :
         send' = [send EXCEPT ![c] = SubSeq(@, k + 1, Len(@))]
    /\ wp' = [wp EXCEPT ![c] = "done"]
    /\ connOpen' = [connOpen EXCEPT ![c] = FALSE]
    /\ last' = NoOp
    /\ UNCHANGED <<clients, rooms, userConnections, clientRooms, userID, closed, rp, hub,
                   crashed, closeCalls, sendOnClosed>>
    /\ UNCHANGED mu
    /\ HeldKept
    /\ UNCHANGED wire

\* faulty variant: the deferred c.conn.Close() fails the process when the socket was
\* closed before
WriteCloseTwiceFails(c) ==
    /\ Alive
    /\ wp[c] = "writing"
    /\ send[c] = <<>>
    /\ closed[c]
    /\ wp' = [wp EXCEPT ![c] = "done"]
    /\ connOpen' = [connOpen EXCEPT ![c] = FALSE]
    /\ crashed' = ~connOpen[c]
    /\ last' = NoOp
    /\ UNCHANGED <<clients, rooms, userConnections, clientRooms, userID, send, closed, rp,
                   hub, closeCalls, sendOnClosed, n>>
    /\ UNCHANGED mu
    /\ HeldKept
    /\ UNCHANGED wire

\* faulty variant: the pump returns without the deferred c.conn.Close()
WriteCloseKeepsSocket(c) ==
    /\ Alive
    /\ wp[c] = "writing"
    /\ send[c] = <<>>
    /\ closed[c]
    /\ wp' = [wp EXCEPT ![c] = "done"]
    /\ last' = NoOp
    /\ UNCHANGED <<clients, rooms, userConnections, clientRooms, userID, send, closed, rp,
                   connOpen, hub, crashed, closeCalls, sendOnClosed, n>>
    /\ UNCHANGED mu
    /\ HeldKept
    /\ UNCHANGED wire

\* case message, ok := <-c.send with !ok: the close frame, then the deferred Close
WriteClose(c) ==
    /\ Alive
    /\ wp[c] = "writing"
    /\ send[c] = <<>>
    /\ closed[c]
    /\ wp' = [wp EXCEPT ![c] = "done"]
    /\ connOpen' = [connOpen EXCEPT ![c] = FALSE]
    /\ last' = NoOp
    /\ UNCHANGED <<clients, rooms, userConnections, clientRooms, userID, send, closed, rp,
                   hub, crashed, closeCalls, sendOnClosed, n>>
    /\ UNCHANGED mu
    /\ HeldKept
    /\ UNCHANGED wire

\* case <-ticker.C when the ping frame cannot be written
WritePingFails(c) ==
    /\ Alive
    /\ wp[c] = "writing"
    /\ Fault(c)
    /\ wp' = [wp EXCEPT ![c] = "done"]
    /\ connOpen' = [connOpen EXCEPT ![c] = FALSE]
    /\ last' = NoOp
    /\ UNCHANGED <<clients, rooms, userConnections, clientRooms, userID, send, closed, rp,
                   hub, crashed, closeCalls, sendOnClosed>>
    /\ UNCHANGED mu
    /\ HeldKept
    /\ UNCHANGED wire

\* the hub, its callers and the pumps of well-behaved peers
Next ==
    \/ \E c \in Client : \E u \in Logins[c] : HubRegister(c, u)
    \/ \E c \in Client : HubUnregister(c)
    \/ \E m \in Payload : HubBroadcastAll(m)
    \/ HubPing
    \/ \E r \in Room, m \in Payload : ApiBroadcastToRoom(r, m)
    \/ \E u \in User, m \in Payload : ApiBroadcastToUser(u, m)
    \/ \E c \in Client, r \in Room : FrameJoin(c, r)
    \/ \E c \in Client, r \in Room : FrameLeave(c, r)
    \/ \E c \in Client : FramePing(c)
    \/ \E c \in Client : ReadError(c)
    \/ \E c \in Client : WriteMessages(c)
    \/ \E c \in Client : WriteClose(c)

Spec == Init /\ [][Next]_vars

\* one connection with every frame type, write failures, a forced unregister and the
\* cancellation of the hub's context
NextFull ==
    \/ Next
    \/ \E c \in Client : HubUnregisterForced(c)
    \/ \E c \in Client, r \in Room : FrameTyping(c, r)
    \/ \E c \in Client : FrameBad(c)
    \/ \E c \in Client : WriteFails(c)
    \/ \E c \in Client : WritePingFails(c)
    \/ Cancel
    \/ HubExit

SpecFull == InitOne /\ [][NextFull]_vars

\* Go's select chooses among its ready cases at random, so a ready <-ctx.Done() is
\* not passed over for ever
SpecFullFair == SpecFull /\ WF_vars(HubExit)

\* a step of the goroutine that runs Hub.Run
HubLoopStep ==
    \/ \E c \in Client : \E u \in User \cup {NoUser} : HubRegister(c, u)
    \/ \E c \in Client : HubUnregister(c) \/ HubUnregisterForced(c)
    \/ \E m \in Payload : HubBroadcastAll(m)
    \/ HubPing
    \/ HubExit

\* a step the WritePump takes without any new input: a message is ready, the queue
\* was closed, or the socket it writes to was already closed
WriteStep(c) ==
    \/ WriteMessages(c)
    \/ WriteClose(c)
    \/ ~connOpen[c] /\ WriteFails(c)

\* the scheduler lets every goroutine that can run do so: the hub loop takes a ready
\* case of its select, and a WritePump whose select has a ready case proceeds
SpecPumpsFair ==
    /\ SpecFull
    /\ WF_vars(HubExit)
    /\ \A c \in Client : WF_vars(HubUnregister(c))
    /\ \A c \in Client : WF_vars(WriteStep(c))

\* ---- the queries as calls of request handlers

\* faulty variant: the slice stored in h.userConnections is returned as it is
SameSlice(s) == [val |-> s, alias |-> TRUE]

\* result := make([]*Client, len(connections)); copy(result, connections)
MakeCopy(s) == [val |-> [i \in 1..Len(s) |-> s[i]], alias |-> FALSE]

\* a slice built by append on a nil slice, or no slice at all
Fresh(s) == [val |-> s, alias |-> FALSE]

\* a query returns to its caller under the read lock
Returns(q, arg, ok, ret) ==
    /\ Alive
    /\ held' = [q |-> q, arg |-> arg, ok |-> ok, val |-> ret.val, alias |-> ret.alias]
    /\ Unlocks("api")
    /\ UNCHANGED <<clients, rooms, userConnections, clientRooms, userID, send, closed, rp,
                   wp, connOpen, hub, crashed, closeCalls, sendOnClosed, last, n, wire>>

\* Hub.GetRoomClients: the members in the order the range over the map visits them
GetRoomClients(r) ==
    \E order \in Orders(RoomMembers(r)) : Returns("GetRoomClients", r, FALSE, Fresh(order))

\* Hub.GetUserConnections
GetUserConnections(u) ==
    Returns("GetUserConnections", u, FALSE,
            IF u \in DOMAIN userConnections THEN MakeCopy(userConnections[u]) ELSE Fresh(<<>>))

\* Hub.IsUserOnline
IsUserOnline(u) == Returns("IsUserOnline", u, IsOnline(u), Fresh(<<>>))

\* Hub.GetOnlineUsers
GetOnlineUsers ==
    \E order \in Orders(ListOnline) : Returns("GetOnlineUsers", "", FALSE, Fresh(order))

\* request handlers query the hub while connections come and go, join and leave rooms
\* and are evicted by broadcasts
NextQueries ==
    \/ \E c \in Client : \E u \in Logins[c] : HubRegister(c, u)
    \/ \E c \in Client : ReadError(c)
    \/ \E c \in Client : HubUnregister(c)
    \/ \E m \in Payload : HubBroadcastAll(m)
    \/ \E u \in User, m \in Payload : ApiBroadcastToUser(u, m)
    \/ \E c \in Client, r \in Room : FrameJoin(c, r)
    \/ \E c \in Client, r \in Room : FrameLeave(c, r)
    \/ \E r \in Room : GetRoomClients(r)
    \/ \E u \in User : GetUserConnections(u)
    \/ \E u \in User : IsUserOnline(u)
    \/ GetOnlineUsers

SpecQueries == Init /\ [][NextQueries]_vars

\* ---- h.mutex: the locked functions in two steps, lock and body-with-unlock

\* h.mutex.Lock() in registerClient, unregisterClient, JoinRoom and LeaveRoom,
\* h.mutex.RLock() in the other functions
Mode(op) == IF op \in {"registerClient", "unregisterClient", "JoinRoom", "LeaveRoom"}
            THEN "W" ELSE "R"

\* sync.RWMutex: a writer excludes everyone, readers exclude writers
LockFree(mode) ==
    \A t \in Task : mu[t] = NoCall \/ (mode = "R" /\ Mode(mu[t].op) = "R")

\* the calls goroutine t makes of the locked functions that send on, close or delete
\* from what the hub holds (the four queries only read the maps, see SpecQueries)
Calls(t) ==
    IF t = "hub"
    THEN {[op |-> "registerClient", a |-> c, b |-> u] : c \in Client, u \in User \cup {NoUser}}
         \cup {[op |-> "unregisterClient", a |-> c, b |-> ""] : c \in Client}
         \cup {[op |-> "broadcastToAll", a |-> "", b |-> m] : m \in Payload}
         \cup {[op |-> "pingClients", a |-> "", b |-> ""]}
    ELSE IF t = "api"
    THEN {[op |-> "BroadcastToRoom", a |-> r, b |-> m] : r \in Room, m \in Payload}
         \cup {[op |-> "BroadcastToUser", a |-> u, b |-> m] : u \in User, m \in Payload}
    ELSE {[op |-> f, a |-> r, b |-> ""] : f \in {"JoinRoom", "LeaveRoom"}, r \in Room}
         \cup {[op |-> "BroadcastToRoom", a |-> r, b |-> TypingMsg] : r \in Room}

\* what goroutine t executes between locking and unlocking h.mutex in the call
Body(t, call) ==
    \/ t = "hub" /\ call.op = "registerClient" /\ call.b \in Logins[call.a]
                 /\ HubRegister(call.a, call.b)
    \/ t = "hub" /\ call.op = "unregisterClient" /\ HubUnregister(call.a)
    \/ t = "hub" /\ call.op = "broadcastToAll" /\ HubBroadcastAll(call.b)
    \/ t = "hub" /\ call.op = "pingClients" /\ HubPing
    \/ t = "api" /\ call.op = "BroadcastToRoom" /\ ApiBroadcastToRoom(call.a, call.b)
    \/ t = "api" /\ call.op = "BroadcastToUser" /\ ApiBroadcastToUser(call.a, call.b)
    \/ t \in Client /\ call.op = "JoinRoom" /\ FrameJoin(t, call.a)
    \/ t \in Client /\ call.op = "LeaveRoom" /\ FrameLeave(t, call.a)
    \/ t \in Client /\ call.op = "BroadcastToRoom" /\ FrameTyping(t, call.a)

\* the input budget a call draws on: a broadcast pass, an inbound frame, or none
Draws(t, op) ==
    IF op \in {"broadcastToAll", "pingClients", "BroadcastToUser"} THEN "b"
    ELSE IF op = "BroadcastToRoom" THEN (IF t = "api" THEN "b" ELSE "f")
    ELSE IF op \in {"JoinRoom", "LeaveRoom"} THEN "f"
    ELSE "none"

\* the calls already under way leave room in the budget the call draws on
InBudget(t, call) ==
    LET k == Draws(t, call.op)
        others == Cardinality({o \in Task \ {t} : mu[o] # NoCall /\ Draws(o, mu[o].op) = k})
    IN  /\ k = "b" => n.b + others < MaxBroadcasts
        /\ k = "f" => n.f + others < MaxFrames

\* faulty variant: the goroutine locks first and only then waits for what the call
\* needs (the channel receive of Hub.Run, the frame of ReadMessage)
LocksBeforeWaiting(t, call) == TRUE

\* goroutine t has reached the call: the hub loop has received from its channel, the
\* ReadPump has read the frame it dispatches
AtCall(t, call) == ENABLED Body(t, call)

\* h.mutex.Lock() or h.mutex.RLock() at the top of the called function
Lock(t, call) ==
    /\ Alive
    /\ mu[t] = NoCall
    /\ AtCall(t, call)
    /\ InBudget(t, call)
    /\ LockFree(Mode(call.op))
    /\ mu' = [mu EXCEPT ![t] = call]
    /\ UNCHANGED <<clients, rooms, userConnections, clientRooms, userID, send, closed, rp,
                   wp, connOpen, hub, crashed, closeCalls, sendOnClosed, last, n, held, wire>>

\* the rest of the locked function up to its deferred unlock
Complete(t) == mu[t] # NoCall /\ Body(t, mu[t])

\* one connection, the hub loop and a request handler inside and outside the locked
\* functions, with the steps of the pumps that take no lock in between
NextLock ==
    \/ \E t \in Task : \E call \in Calls(t) : Lock(t, call)
    \/ \E t \in Task : Complete(t)
    \/ \E c \in Client : mu[c] = NoCall /\ FramePing(c)
    \/ \E c \in Client : mu[c] = NoCall /\ ReadError(c)
    \/ \E c \in Client : WriteMessages(c)

SpecLock == InitOne /\ [][NextLock]_vars

\* ---- executions made only of calls of Hub.JoinRoom and Hub.LeaveRoom

RoomIds == Room \cup {"g3"}

\* a caller of Hub.JoinRoom(c, r)
CallJoinRoom(c, r) ==
    /\ JoinRoom(c, r)
    /\ last' = [op |-> "JoinRoom", full |-> {}, panicAt |-> NoClient, frame |-> <<>>]
    /\ UNCHANGED <<clients, userConnections, userID, send, closed, rp, wp, connOpen, hub,
                   crashed, closeCalls, sendOnClosed, n>>
    /\ UNCHANGED mu
    /\ HeldKept
    /\ UNCHANGED wire

\* a caller of Hub.LeaveRoom(c, r)
CallLeaveRoom(c, r) ==
    /\ LeaveRoom(c, r)
    /\ last' = [op |-> "LeaveRoom", full |-> {}, panicAt |-> NoClient, frame |-> <<>>]
    /\ UNCHANGED <<clients, userConnections, userID, send, closed, rp, wp, connOpen, hub,
                   crashed, closeCalls, sendOnClosed, n>>
    /\ UNCHANGED mu
    /\ HeldKept
    /\ UNCHANGED wire

NextRooms ==
    \/ \E c \in Client, r \in RoomIds : CallJoinRoom(c, r)
    \/ \E c \in Client, r \in RoomIds : CallLeaveRoom(c, r)

SpecRooms == InitWith(Client) /\ [][NextRooms]_vars

\* ---- two connections that join rooms, ping and send typing notifications

NextTyping ==
    \/ \E c \in Client : \E u \in Logins[c] : HubRegister(c, u)
    \/ \E m \in Payload : HubBroadcastAll(m)
    \/ \E c \in Client, r \in Room : FrameJoin(c, r)
    \/ \E c \in Client : FramePing(c)
    \/ \E c \in Client, r \in Room : FrameTyping(c, r)
    \/ \E c \in Client, r \in Room : FrameStopTyping(c, r)
    \/ \E c \in Client : WriteMessages(c)

SpecTyping == Init /\ [][NextTyping]_vars

\* ---- three connections, the user index and the per-user broadcast

NextUsers ==
    \/ \E c \in Client : \E u \in Logins[c] : HubRegister(c, u)
    \/ \E c \in Client : ReadError(c)
    \/ \E c \in Client : HubUnregister(c)
    \/ \E c \in Client : FramePing(c)
    \/ \E u \in User, m \in Payload : ApiBroadcastToUser(u, m)
    \/ \E c \in Client : WriteMessages(c)

SpecUsers == InitWith(Client) /\ [][NextUsers]_vars

\* ---- Register and Unregister events in any order, a Register repeated included

NextRegister ==
    \/ \E c \in Client : \E u \in Logins[c] : HubRegister(c, u)
    \/ \E c \in Client : HubRegisterAgain(c)
    \/ \E c \in Client : ReadError(c)
    \/ \E c \in Client : HubUnregister(c)
    \/ \E c \in Client : HubUnregisterForced(c)
    \/ \E c \in Client : WriteClose(c)

SpecRegister == InitWith(Client) /\ [][NextRegister]_vars

\* ---- two broadcasts to rooms issued one after the other by one caller

\* the caller's next Hub.BroadcastToRoom: the second is called after the first returned
ApiBroadcastOrdered(r) ==
    /\ n.b < Len(Ordered)
    /\ ApiBroadcastToRoom(r, Ordered[n.b + 1])

NextOrder ==
    \/ \E c \in Client : \E u \in Logins[c] : HubRegister(c, u)
    \/ \E c \in Client, r \in Room : FrameJoin(c, r)
    \/ \E c \in Client : FramePing(c)
    \/ \E r \in Room : ApiBroadcastOrdered(r)
    \/ \E c \in Client : WriteMessages(c)

SpecOrder == Init /\ [][NextOrder]_vars

\* ---- the claims

\* C1: each connection's outbound queue is closed at most once, in every interleaving
\* of Unregister, the eviction branches of the broadcast passes and the keepalive ping,
\* and the connection's own SendMessage.
C1_ClosedAtMostOnce == \A c \in Client : closeCalls[c] <= 1

\* C2: no enqueue is ever attempted on a connection's outbound queue after that queue
\* has been closed, by any broadcast pass, the keepalive ping or the connection's own
\* pong reply.
C2_NoSendAfterClose == sendOnClosed = {}

\* C3: after every mutation of hub state, for every room R and connection C, C is in
\* R's member set if and only if R's id is in C's own room set.
C3_MembershipMirrored ==
    Alive => \A r \in Room, c \in Client : c \in RoomMembers(r) <=> r \in clientRooms[c]

\* C4: when a BroadcastRoom pass finds a member whose queue is full, then once the pass
\* has finished that connection is a member of no room, is absent from the user index
\* and from the global connection set, and RoomMembers lists it for no room.
C4_RoomPassEvictsEverywhere ==
    (last.op = "BroadcastToRoom" /\ last.panicAt = NoClient)
        => \A a \in last.full : ~InSomeRoom(a) /\ ~InUserIndex(a) /\ a \notin clients

\* C5: when a BroadcastAll pass or a keepalive ping pass finds a registered connection
\* whose queue is full, then once the pass has finished the connection's queue is
\* closed and the connection is absent from the global set, from every room and from
\* the user index.
C5_GlobalPassEvictsEverywhere ==
    (last.op \in {"broadcastToAll", "pingClients"} /\ last.panicAt = NoClient)
        => \A a \in last.full :
             closed[a] /\ a \notin clients /\ ~InSomeRoom(a) /\ ~InUserIndex(a)

\* C6: after every mutation of hub state, a connection appears in the user index under
\* its user id if and only if it is in the global set of registered connections and
\* its user id is non-empty.
C6_UserIndexIffRegistered ==
    Alive => \A c \in Client : InUserIndex(c) <=> (c \in clients /\ userID[c] # NoUser)

\* C7: a failure of one connection (saturated queue, socket error, unregister) never
\* stops the hub: the process that runs the hub control loop and the other
\* connections' pumps is never ended by it.
C7_HubSurvivesConnectionFailure == ~crashed

\* C8: a broadcast pass (room, user, all or keepalive) always completes: each
\* per-connection step is an immediate enqueue or an immediate eviction, and the pass
\* is never cut short.
C8_PassCompletes == last.op # "none" => last.panicAt = NoClient

\* C9: when no member's queue is full, one BroadcastRoom(r, M) call enqueues exactly
\* one copy of M on the queue of every member of r and nothing on any other queue.
C9_RoomBroadcastDelivers ==
    [][\A r \in Room, m \in Payload :
         (ApiBroadcastToRoom(r, m) /\ \A c \in RoomMembers(r) : Len(send[c]) < QueueCap)
             => \A c \in Client :
                  send'[c] = IF c \in RoomMembers(r) THEN Append(send[c], m) ELSE send[c]]_vars

\* C10: when several connections are registered with the same non-empty user id u and
\* none of their queues is full, BroadcastUser(u, M) enqueues M exactly once on each of
\* them and on no connection registered under a different user id.
C10_UserBroadcastDelivers ==
    [][\A u \in User, m \in Payload :
         (/\ ApiBroadcastToUser(u, m)
          /\ Cardinality(RegisteredAs(u)) >= 2
          /\ \A c \in RegisteredAs(u) : Len(send[c]) < QueueCap)
             => \A c \in Client :
                  send'[c] = IF c \in RegisteredAs(u) THEN Append(send[c], m) ELSE send[c]]_vars

\* C11: in a BroadcastRoom or BroadcastAll pass in which some target's queue is full,
\* every other target whose queue is open and has free capacity still gets exactly one
\* copy of the message in that pass, whatever the iteration order.
C11_FullTargetsDoNotStarveOthers ==
    [][/\ \A m \in Payload :
            (HubBroadcastAll(m) /\ \E a \in clients : Len(send[a]) = QueueCap)
                => \A c \in clients :
                     (~closed[c] /\ Len(send[c]) < QueueCap) => send'[c] = Append(send[c], m)
       /\ \A r \in Room, m \in Payload :
            (ApiBroadcastToRoom(r, m) /\ \E a \in RoomMembers(r) : Len(send[a]) = QueueCap)
                => \A c \in RoomMembers(r) :
                     (~closed[c] /\ Len(send[c]) < QueueCap) => send'[c] = Append(send[c], m)
      ]_vars

\* C12: in any execution made only of JoinRoom and LeaveRoom calls, after each call,
\* for every room R and connection C, C is in R's member set if and only if R's id is
\* in C's room set.
C12_JoinLeaveKeepMirror ==
    \A r \in RoomIds, c \in Client : (c \in RoomMembers(r)) = (r \in clientRooms[c])

\* C12 witness: a LeaveRoom call has just acted while other memberships remain
C12_Witness ==
    /\ last.op = "LeaveRoom"
    /\ RoomMembers("g1") = {"c2"}
    /\ clientRooms["c1"] = {"g2", "g3"}

\* C13: JoinRoom(c, r) applied twice leaves the same rooms index and the same c.rooms
\* as applying it once, and LeaveRoom(c, r) applied twice equals applying it once,
\* from every hub state (including when c was never in r).
C13_JoinLeaveIdempotent ==
    \A c \in Client, r \in Room :
      LET j == JoinRoomState(Membership, c, r)
          l == LeaveRoomState(Membership, c, r)
      IN JoinRoomState(j, c, r) = j /\ LeaveRoomState(l, c, r) = l

\* C13 witness: c1 is already a member of g1 (a second join repeats the first), room g2
\* does not exist and c2 was never in a room (a leave of a non-member), and the member
\* sets and the connections' own room sets disagree for no pair
C13_Witness ==
    /\ "c1" \in RoomMembers("g1")
    /\ "g1" \in clientRooms["c1"]
    /\ "g2" \notin DOMAIN rooms
    /\ clientRooms["c2"] = {}
    /\ "c2" \in clients

C15_RoomExistsIffNonEmpty ==
    /\ \A r \in DOMAIN rooms : rooms[r] # {}
    /\ \A r \in Room : (r \in DOMAIN rooms) = (\E c \in Client : c \in RoomMembers(r))

\* C15 witness: a room broadcast has just evicted the last member of the only room
C15_Witness ==
    /\ last.op = "BroadcastToRoom"
    /\ last.full # {}
    /\ last.panicAt = NoClient
    /\ DOMAIN rooms = {}

\* C16: once a connection has left the global set (by Unregister or by eviction), no
\* later step puts it back into the global set, into a room's member set or into the
\* user index.
C16_UnregisteredIsTerminal ==
    [][\A c \in Client :
         (c \notin clients /\ rp[c] \notin {"new", "absent"})
             => /\ c \notin clients'
                /\ \A r \in Room : c \in RoomMembers(r)' => c \in RoomMembers(r)
                /\ InUserIndex(c)' => InUserIndex(c)]_vars

\* C17: the hub's indices (global connection set, rooms, user index) are mutated only
\* by the hub control loop task: no step of an inbound pump, of an HTTP request handler
\* or of another caller of JoinRoom, LeaveRoom, BroadcastRoom or BroadcastUser writes
\* to them.
C17_OnlyHubLoopMutates ==
    [][<<clients, rooms, userConnections>>' # <<clients, rooms, userConnections>>
           => HubLoopStep]_vars

\* C18: membership events of one connection take effect in the order it issued them:
\* once its leave_room(r) is processed after its join_room(r) the connection is not a
\* member of r, and no step other than a later join_room(r) of its own makes it one,
\* under every interleaving with other connections and with the hub loop.
C18_LeaveAfterJoinWins ==
    [][\A c \in Client, r \in Room :
         /\ FrameLeave(c, r) => (c \notin RoomMembers(r)' /\ r \notin clientRooms'[c])
         /\ (c \notin RoomMembers(r) /\ ~FrameJoin(c, r)) => c \notin RoomMembers(r)']_vars

\* C18 witness: c1's leave_room frame has just removed it from a room it had joined,
\* while c2 is a member of a room
C18_Witness ==
    /\ last.op = "leave_room"
    /\ last.full = {"c1"}
    /\ clientRooms["c1"] = {}
    /\ InSomeRoom("c2")

\* C19: after the hub's lifetime is cancelled the control loop eventually exits (or the
\* process has ended), and once it has exited it processes no further register,
\* unregister, broadcast-all or keepalive event.
C19_CancelledLoopExits ==
    /\ (hub = "cancelled") ~> (hub = "exited" \/ crashed)
    /\ [][hub = "exited" => ~HubLoopStep]_vars

\* C19 witness: the loop has exited while a registered connection's ReadPump waits to
\* hand over its unregister event
C19_Witness ==
    /\ hub = "exited"
    /\ "c1" \in clients
    /\ rp["c1"] = "unregistering"

\* C20: the control loop's exit on cancellation closes no queue, removes no connection
\* from the global set, the rooms index or the user index, and enqueues nothing.
C20_ExitChangesNothingElse ==
    [][HubExit => UNCHANGED <<clients, rooms, userConnections, clientRooms, userID, send,
                              closed, closeCalls, connOpen, rp, wp>>]_vars

\* C20 witness: the loop has exited and left a registered room member with an open,
\* non-empty queue
C20_Witness ==
    /\ hub = "exited"
    /\ "c1" \in clients
    /\ InSomeRoom("c1")
    /\ InUserIndex("c1")
    /\ send["c1"] # <<>>
    /\ ~closed["c1"]

\* C21: on every read failure, in every reachable hub state (also after the hub's
\* lifetime was cancelled), the inbound pump exits, its Unregister is processed and the
\* pump then closes the socket, so the connection's entries in the hub indices are
\* eventually removed (unless the process has ended).
C21_ReadFailureUnregisters ==
    \A c \in Client :
      (rp[c] = "unregistering")
          ~> (\/ crashed
              \/ /\ rp[c] = "done"
                 /\ ~connOpen[c]
                 /\ c \notin clients
                 /\ ~InSomeRoom(c)
                 /\ ~InUserIndex(c))

\* C22: a protocol error is never fatal: for a malformed or unrecognized inbound frame,
\* whatever the fill level of the connection's queue, the connection gets an error
\* envelope, its queue stays open, it stays registered with its room memberships
\* unchanged, and the inbound pump goes on reading.
C22_ProtocolErrorNotFatal ==
    [][\A c \in Client :
         FrameBad(c) => /\ send'[c] = Append(send[c], ErrorMsg)
                        /\ ~closed'[c]
                        /\ clients' = clients
                        /\ rooms' = rooms
                        /\ clientRooms' = clientRooms
                        /\ rp'[c] = "reading"]_vars

\* C23: an inbound ping frame is answered by enqueuing one pong envelope on the
\* sender's own queue and nothing else: the global set, the rooms index, the user
\* index, the queues' closed flags and every other connection's queue are unchanged.
C23_PingOnlyEnqueuesPong ==
    [][\A c \in Client :
         FramePing(c) => /\ send'[c] = Append(send[c], PongMsg)
                         /\ \A d \in Client \ {c} : send'[d] = send[d]
                         /\ closed' = closed
                         /\ UNCHANGED <<clients, rooms, userConnections>>]_vars

\* C24: the outbound pump always terminates with the socket closed: once its queue is
\* closed it exits (after the close frame), a failed write makes it exit, and whenever
\* it has exited the socket is closed and nothing is dequeued from its queue any more.
C24_WritePumpEndsClosed ==
    /\ \A c \in Client : (closed[c] /\ wp[c] = "writing") ~> (wp[c] = "done" \/ crashed)
    /\ [](\A c \in Client : wp[c] = "done" => ~connOpen[c])
    /\ [][\A c \in Client :
            /\ (WriteClose(c) \/ WriteFails(c) \/ WritePingFails(c))
                   => (wp'[c] = "done" /\ ~connOpen'[c])
            /\ wp[c] = "done" => (wp'[c] = "done" /\ IsPrefix(send[c], send'[c]))]_vars

\* C24 witness: the queue was closed, the outbound pump has sent the close frame and
\* exited with the socket closed, before the inbound pump noticed
C24_Witness ==
    /\ wp["c1"] = "done"
    /\ closed["c1"]
    /\ ~connOpen["c1"]
    /\ rp["c1"] = "reading"
    /\ Alive

\* C25: absent write errors, the outbound pump writes exactly the messages it takes
\* from the front of the queue, each once and in enqueue order, as separate
\* newline-delimited units, none lost, duplicated or replaced by an empty unit, also
\* when the queue was closed meanwhile; what it does not take stays queued in order.
C25_WritesExactlyTheQueue ==
    [][\A c \in Client :
         WriteMessages(c) =>
           LET k == Len(send[c]) - Len(send'[c]) IN
           /\ k >= 1
           /\ send'[c] = SubSeq(send[c], k + 1, Len(send[c]))
           /\ Units(last'.frame) = [i \in 1..k |-> <<send[c][i]>>]]_vars

\* C25 witness: a frame of two coalesced messages was written from a queue that had
\* already been closed
C25_Witness ==
    /\ last.op = "WritePump"
    /\ Units(last.frame) = << <<"M1">>, <<PongMsg>> >>
    /\ closed["c1"]
    /\ send["c1"] = <<>>

\* C26: each connection's outbound queue has exactly one reader: in every interleaving
\* of hub loop, inbound pumps and request handlers, a step that takes a message out of
\* a connection's queue is a step of that connection's own outbound pump, and a pump
\* takes nothing out of another connection's queue.
C26_OnlyOwnPumpDequeues ==
    [][\A c \in Client :
         /\ ~IsPrefix(send[c], send'[c]) => WriteMessages(c) \/ WriteFails(c)
         /\ WriteMessages(c) \/ WriteFails(c) =>
              \A d \in Client \ {c} : send'[d] = send[d]]_vars

\* C26 witness: the pump of c1 has just written c1's queue empty while c2, registered
\* too, still has a full queue
C26_Witness ==
    /\ last.op = "WritePump"
    /\ {"c1", "c2"} \subseteq clients
    /\ send["c1"] = <<>>
    /\ Len(send["c2"]) = QueueCap

\* C27: a keepalive tick of the hub loop enqueues one ping envelope on every registered
\* connection whose queue has free capacity, closes and unregisters every registered
\* connection whose queue is full, and gives connections that are not registered
\* nothing.
C27_TickPingsEveryRegistered ==
    [][HubPing =>
         \A c \in Client :
           /\ (c \in clients /\ Len(send[c]) < QueueCap) => send'[c] = Append(send[c], PingMsg)
           /\ (c \in clients /\ Len(send[c]) = QueueCap) =>
                send'[c] = send[c] /\ closed'[c] /\ c \notin clients'
           /\ c \notin clients => send'[c] = send[c]]_vars

\* C29: socket closure is idempotent: a closed socket never becomes open again, and
\* when a pump of a connection exits and closes a socket that the other pump (or the
\* same close before) already closed, whichever pump came first, the step changes no
\* socket and makes nothing fail.
C29_SocketCloseIdempotent ==
    [][\A c \in Client :
         /\ ~connOpen[c] => ~connOpen'[c]
         /\ (~connOpen[c] /\ wp[c] = "writing" /\ wp'[c] = "done")
              => connOpen' = connOpen /\ crashed' = crashed
         /\ (~connOpen[c] /\ rp[c] # "done" /\ rp'[c] = "done")
              => connOpen' = connOpen /\ crashed' = crashed]_vars

\* C29 witness: both pumps of c1 have exited, each through its deferred close of the
\* socket, and the process is alive
C29_Witness ==
    /\ rp["c1"] = "done"
    /\ wp["c1"] = "done"
    /\ ~connOpen["c1"]
    /\ Alive

\* C30: the queries IsOnline, ListOnline, RoomMembers and UserConnections are
\* read-only: a call changes neither the global connection set, the rooms index, the
\* user index nor any connection's queue; and the list a caller got from a query is
\* changed by no later step of the hub, only replaced by the caller's next query.
C30_QueriesReadOnly ==
    [][IF \/ \E r \in Room : GetRoomClients(r)
          \/ \E u \in User : GetUserConnections(u) \/ IsUserOnline(u)
          \/ GetOnlineUsers
       THEN UNCHANGED <<clients, rooms, userConnections, send>>
       ELSE held' = held]_vars

\* C30 witness: the caller still holds the two connections of u1 it was given, in their
\* order, after the hub removed the first of them from the user index
C30_Witness ==
    /\ held.q = "GetUserConnections"
    /\ held.val = <<"c1", "c2">>
    /\ UserConnections("u1") = <<"c2">>

\* C28: no goroutine waits at a suspension point while it holds the hub's lock: in
\* every state of a live process, a goroutine that is inside a locked function can run
\* on to the unlock at once, whatever the queues, the channels and the sockets are
\* like.
C28_NoWaitUnderLock ==
    Alive => \A t \in Task : mu[t] # NoCall => ENABLED Complete(t)

\* C28 witness: the hub loop is inside pingClients and a request handler inside
\* BroadcastToRoom, both under the read lock, while the queue of the room's member c1
\* is full
C28_Witness ==
    /\ Alive
    /\ mu["hub"].op = "pingClients"
    /\ mu["api"].op = "BroadcastToRoom"
    /\ "c1" \in RoomMembers(mu["api"].a)
    /\ Len(send["c1"]) = QueueCap

\* C31: an inbound typing{room_id} frame broadcasts one user_typing envelope with
\* is_typing = true to the members of room_id, and stop_typing one with is_typing =
\* false: every member whose queue has room gets exactly that envelope, connections
\* outside the room get nothing, and when no member's queue is full no membership
\* index changes.
C31_TypingBroadcastsToRoom ==
    [][\A c \in Client, r \in Room :
         \A m \in {TypingMsg, StopTypingMsg} :
           (IF m = TypingMsg THEN FrameTyping(c, r) ELSE FrameStopTyping(c, r)) =>
             /\ \A d \in RoomMembers(r) :
                  Len(send[d]) < QueueCap => send'[d] = Append(send[d], m)
             /\ \A d \in Client \ RoomMembers(r) : send'[d] = send[d]
             /\ (\A d \in RoomMembers(r) : Len(send[d]) < QueueCap)
                  => UNCHANGED <<clients, rooms, userConnections, clientRooms>>]_vars

\* C32: in a BroadcastUser(u, M) pass over three or more connections of u of which one
\* has a full queue (none being closed), every other connection of u whose queue has
\* free capacity receives exactly one copy of M: the removal of the saturated
\* connection during the pass makes it neither skip a connection nor visit one twice.
C32_UserPassSkipsNone ==
    [][\A u \in User, m \in Payload :
         (/\ ApiBroadcastToUser(u, m)
          /\ Len(UserConnections(u)) >= 3
          /\ Cardinality({c \in Range(UserConnections(u)) : Len(send[c]) = QueueCap}) = 1
          /\ \A c \in Range(UserConnections(u)) : ~closed[c])
            => \A c \in Range(UserConnections(u)) :
                 Len(send[c]) < QueueCap => send'[c] = Append(send[c], m)]_vars

\* C33: when BroadcastUser(u, M) finds a connection of u whose queue is full, it
\* removes that connection from the user index entry of u and does nothing else to it:
\* no queue is closed by the pass, and the global connection set, the rooms and the
\* other entries of the user index stay as they were.
C33_UserPassOnlyUnindexes ==
    [][\A u \in User, m \in Payload :
         ApiBroadcastToUser(u, m) =>
           /\ \A c \in last'.full :
                u \notin DOMAIN userConnections' \/ c \notin Range(userConnections'[u])
           /\ \A x \in DOMAIN userConnections \ {u} :
                x \in DOMAIN userConnections' /\ userConnections'[x] = userConnections[x]
           /\ UNCHANGED <<closed, closeCalls, clients, rooms, clientRooms>>]_vars

\* C33 witness: the last per-user pass found c1's queue full; c1 is out of the user
\* index, while its queue is open and it is still registered and a room member
C33_Witness ==
    /\ last.op = "BroadcastToUser"
    /\ "c1" \in last.full
    /\ userID["c1"] = "u1"
    /\ "c1" \notin Range(UserConnections("u1"))
    /\ ~closed["c1"]
    /\ "c1" \in clients
    /\ InSomeRoom("c1")

\* C34: a broadcast or keepalive pass evicts a connection only when its queue holds
\* exactly QueueCap undelivered messages at the enqueue attempt: a connection with a
\* free slot is not closed and not taken out of the global set or of a room by the
\* pass, a connection the per-user pass takes out of the user index is full at that
\* attempt, and no queue ever holds more than QueueCap messages.
C34_EvictedOnlyWhenFull ==
    [][/\ \A c \in Client : Len(send'[c]) <= QueueCap
       /\ ((\E m \in Payload : HubBroadcastAll(m)) \/ HubPing
              \/ (\E r \in Room, m \in Payload : ApiBroadcastToRoom(r, m))
              \/ (\E u \in User, m \in Payload : ApiBroadcastToUser(u, m)))
            => \A c \in Client :
                 /\ Len(send[c]) < QueueCap =>
                      /\ closed'[c] = closed[c]
                      /\ c \in clients => c \in clients'
                      /\ \A r \in Room :
                           c \in RoomMembers(r) =>
                             r \in DOMAIN rooms' /\ c \in rooms'[r]
                 /\ \A u \in User :
                      (/\ c \in Range(UserConnections(u))
                       /\ u \in DOMAIN userConnections' => c \notin Range(userConnections'[u]))
                        => Len(send'[c]) = QueueCap]_vars

\* C34 witness: the last global pass evicted c1, whose queue holds QueueCap messages,
\* and delivered to c2, whose queue had a free slot and is still open and registered
C34_Witness ==
    /\ last.op = "broadcastToAll"
    /\ last.full = {"c1"}
    /\ Len(send["c1"]) = QueueCap
    /\ closed["c1"]
    /\ "c2" \in clients
    /\ ~closed["c2"]
    /\ Len(send["c2"]) = QueueCap

\* C35: room membership exists only inside the registered state: in every reachable
\* state, every connection that is a member of some room is in the hub's global set of
\* registered connections.
C35_MembersAreRegistered ==
    \A r \in Room : RoomMembers(r) \subseteq clients

\* C36: in every reachable state, a connection whose outbound queue has been closed is
\* not in the hub's global set of registered connections, in no room's member set and
\* not in the user index, so that no broadcast path can still select it as a target.
C36_ClosedIsNowhere ==
    \A c \in Client :
        closed[c] => /\ c \notin clients
                     /\ ~InSomeRoom(c)
                     /\ \A u \in User : c \notin Range(UserConnections(u))

\* C37: after any sequence of Register and Unregister events, a Register processed
\* twice for the same connection included, the user index holds each connection at
\* most once under its user id, and an Unregister of a connection leaves no trace of it
\* in the user index.
C37_IndexedAtMostOnce ==
    [][/\ \A u \in DOMAIN userConnections' :
            \A i, j \in 1..Len(userConnections'[u]) :
                userConnections'[u][i] = userConnections'[u][j] => i = j
       /\ \A c \in Client :
            ((HubUnregister(c) \/ HubUnregisterForced(c)) /\ ~UnregisterPanics(c))
              => \A u \in DOMAIN userConnections' : c \notin Range(userConnections'[u])]_vars

\* C38: the user index never keeps an entry with an empty connection list, and the
\* online queries agree in every reachable state: IsUserOnline(u) is true if and only if
\* u is among the ids GetOnlineUsers collects, if and only if the list of u is non-empty.
C38_OnlineQueriesAgree ==
    /\ \A u \in DOMAIN userConnections : Len(userConnections[u]) > 0
    /\ \A u \in User :
         /\ IsOnline(u) <=> u \in ListOnline
         /\ IsOnline(u) <=> Len(UserConnections(u)) > 0

\* a user whose only connection was unregistered is asked about: its entry is gone from
\* the index and the three queries answer no, empty and not listed
C38_Witness ==
    \E u \in User : \E c \in Client :
        /\ userID[c] = u /\ c \notin clients /\ closed[c]
        /\ held.q = "IsUserOnline" /\ held.arg = u /\ ~held.ok
        /\ u \notin DOMAIN userConnections
        /\ ~IsOnline(u) /\ u \notin ListOnline /\ UserConnections(u) = <<>>

\* C39: Hub.JoinRoom(c, r) and Hub.LeaveRoom(c, r) change only the pair (c, r): the
\* membership of every other connection in r, the membership of every connection in
\* every other room, the connection set, the user index and all outbound queues stay as
\* they were.
C39_JoinLeaveTouchOnePair ==
    [][\A c \in Client, r \in Room :
         (FrameJoin(c, r) \/ FrameLeave(c, r)) =>
            /\ \A d \in Client, q \in Room :
                 (d # c \/ q # r) =>
                    /\ (d \in RoomMembers(q))' <=> d \in RoomMembers(q)
                    /\ (q \in clientRooms[d])' <=> q \in clientRooms[d]
            /\ UNCHANGED <<clients, userConnections, userID, send, closed>>]_vars

\* a connection has just joined a room that has another member, while another room has
\* members too and a message waits in a queue
C39_Witness ==
    /\ last.op = "join_room"
    /\ \E c, d \in Client, r, q \in Room :
         /\ c # d /\ r # q
         /\ {c, d} \subseteq RoomMembers(r)
         /\ RoomMembers(q) # {}
    /\ \E c \in Client : Len(send[c]) > 0
\* C40: when BroadcastToRoom of a first message has returned before BroadcastToRoom of a
\* second is called, every connection has the first ahead of the second in its outbound
\* queue, its WritePump writes the first to the socket before the second, and never the
\* first after the second.
C40_DeliveryFollowsBroadcastOrder ==
    \A c \in Client :
        LET q1 == IndexOf(send[c], Ordered[1])
            q2 == IndexOf(send[c], Ordered[2])
            w1 == IndexOf(wire[c], Ordered[1])
            w2 == IndexOf(wire[c], Ordered[2])
        IN  /\ (q1 > 0 /\ q2 > 0) => q1 < q2
            /\ (w1 > 0 /\ w2 > 0) => w1 < w2
            /\ ~(w2 > 0 /\ q1 > 0)

\* one connection has had both broadcasts written to its socket while another still has
\* both in its queue
C40_Witness ==
    \E c, d \in Client :
        /\ c # d
        /\ wire[c] = Ordered
        /\ send[d] = Ordered

====
